---- MODULE Spec2Model ----
(***************************************************************************)
(* A model of package notarize (notarize.go): the function Notarize, which *)
(* drives codesign, ditto, notarytool and stapler over one application     *)
(* bundle inside a temporary working directory.                            *)
(*                                                                         *)
(* Strings are sequences of tokens.  "/" and "." are tokens of their own,  *)
(* every other token stands for a run of characters holding neither, so    *)
(* the path functions below see exactly the characters Go's path/filepath  *)
(* looks at.                                                               *)
(***************************************************************************)
EXTENDS Integers, Sequences, FiniteSets, TLC

\* ------------------------------------------------------------------ bounds
\* Number of invocations that may be in flight at once (SpecConc).
NumInv == 2
\* Number of sequential calls made by the caller in SpecRerun.
MaxRuns == 2
\* Number of names os.MkdirTemp can draw.
NumTmpNames == 2
\* Longest bundle path enumerated in SpecPath.
MaxPathLen == 4
\* Number of chunks a tool prints on its standard output.
NumChunks == 2

Invs == 1..NumInv

\* ------------------------------------------------------------- small helpers
Max(S) == CHOOSE x \in S : \A y \in S : y <= x
Min(S) == CHOOSE x \in S : \A y \in S : x <= y

\* s[from..] in Go's slice notation with 1-based from.
From(s, k) == SubSeq(s, k, Len(s))

\* The first n elements of s, or all of s if it is shorter.
FirstN(s, n) == SubSeq(s, 1, IF n < Len(s) THEN n ELSE Len(s))

IsPrefix(p, s) == Len(p) <= Len(s) /\ SubSeq(s, 1, Len(p)) = p

\* ---------------------------------------------------------- path/filepath
Separator == "/"

\* filepath.Ext: the suffix beginning at the final dot in the final element
\* of path; empty if there is no dot.
Ext(path) ==
    LET dots == {k \in 1..Len(path) :
                    /\ path[k] = "."
                    /\ \A j \in k..Len(path) : path[j] # Separator}
    IN  IF dots = {} THEN <<>> ELSE From(path, Max(dots))

\* filepath.Base: the last element of path, trailing separators removed
\* first; "." for the empty path, "/" for a path of separators only.
Base(path) ==
    IF path = <<>> THEN <<".">>
    ELSE LET keep == {k \in 1..Len(path) : path[k] # Separator}
             n == IF keep = {} THEN 0 ELSE Max(keep)
             stripped == SubSeq(path, 1, n)
             slashes == {k \in 1..n : stripped[k] = Separator}
             i == IF slashes = {} THEN 0 ELSE Max(slashes)
             rest == SubSeq(stripped, i + 1, n)
         IN  IF rest = <<>> THEN <<Separator>> ELSE rest

\* The elements of a path between separators, empty elements dropped:
\* from[k] is the elements of s read from position k on.
Elems(s) ==
    LET from[k \in 1..(Len(s) + 1)] ==
            IF k > Len(s) THEN <<>>
            ELSE LET slashes == {j \in k..Len(s) : s[j] = Separator}
                     e == IF slashes = {} THEN Len(s) + 1 ELSE Min(slashes)
                     head == SubSeq(s, k, e - 1)
                 IN  (IF head = <<>> THEN <<>> ELSE <<head>>)
                         \o (IF e >= Len(s) THEN <<>> ELSE from[e + 1])
    IN  from[1]

\* Clean's elimination of "." and ".." elements.
RECURSIVE Resolve(_, _, _)
Resolve(elems, stack, rooted) ==
    IF elems = <<>> THEN stack
    ELSE LET e == Head(elems)
             rest == Tail(elems)
         IN  IF e = <<".">> THEN Resolve(rest, stack, rooted)
             ELSE IF e = <<".", ".">> THEN
                 IF stack # <<>> /\ stack[Len(stack)] # <<".", ".">>
                     THEN Resolve(rest, SubSeq(stack, 1, Len(stack) - 1), rooted)
                 ELSE IF rooted THEN Resolve(rest, stack, rooted)
                 ELSE Resolve(rest, Append(stack, e), rooted)
             ELSE Resolve(rest, Append(stack, e), rooted)

RECURSIVE JoinElems(_)
JoinElems(elems) ==
    IF elems = <<>> THEN <<>>
    ELSE IF Len(elems) = 1 THEN elems[1]
    ELSE elems[1] \o <<Separator>> \o JoinElems(Tail(elems))

\* filepath.Clean: the shortest path name equivalent to path by purely
\* lexical processing.
Clean(path) ==
    LET rooted == path # <<>> /\ path[1] = Separator
        out == (IF rooted THEN <<Separator>> ELSE <<>>)
                 \o JoinElems(Resolve(Elems(path), <<>>, rooted))
    IN  IF out = <<>> THEN <<".">> ELSE out

\* filepath.Join of two elements: empty elements are ignored, the rest are
\* joined with a separator and the result is Cleaned.
Join(dir, name) ==
    IF dir = <<>> /\ name = <<>> THEN <<>>
    ELSE IF dir = <<>> THEN Clean(name)
    ELSE Clean(dir \o <<Separator>> \o name)

\* Mutant of ZipName: the name is cut at the first dot of the base name.
ZipName_FirstDot(path) ==
    LET base == Base(path)
        dots == {k \in 1..Len(base) : base[k] = "."}
    IN  (IF dots = {} THEN base ELSE SubSeq(base, 1, Min(dots) - 1))
            \o <<".", "zip">>

\* notarize.go:82-83: the archive's name.
ZipName(path) ==
    LET base == Base(path)
    IN  SubSeq(base, 1, Len(base) - Len(Ext(base))) \o <<".", "zip">>

\* notarize.go:84: where the archive is put.
ZipPath(dir, path) == Join(dir, ZipName(path))

\* Mutant of EntitlementsPath: the descriptor is put next to the working
\* directory, not in it.
EntitlementsPath_Outside(dir) ==
    Join(<<Separator, "tmp">>, <<"entitlements", ".", "plist">>)

\* notarize.go:56: where the entitlements descriptor is put.
EntitlementsPath(dir) == Join(dir, <<"entitlements", ".", "plist">>)

\* ------------------------------------------------------------ program data
\* notarize.go:16-25, one string per line of the document.
entitlementsPlist ==
    << "<?xml version=\"1.0\" encoding=\"UTF-8\"?>",
       "<!DOCTYPE plist PUBLIC \"-//Apple//DTD PLIST 1.0//EN\" \"http://www.apple.com/DTDs/PropertyList-1.0.dtd\">",
       "<plist version=\"1.0\">",
       "  <dict>",
       "    <key>com.apple.security.cs.disable-library-validation</key>",
       "    <true/>",
       "    <key>com.apple.security.cs.allow-dyld-environment-variables</key>",
       "    <true/>",
       "  </dict>",
       "</plist>" >>

\* A *NotarizeOptions: nil, or a pointer to a struct with the five fields.
NilOptions ==
    [ptr |-> "nil", Email |-> "", DeveloperName |-> "", TeamID |-> "",
     AppPassword |-> "", ProgressOutput |-> "nil"]

Options(cred, out) ==
    [ptr |-> "struct", Email |-> cred.Email,
     DeveloperName |-> "Developer ID Application: X",
     TeamID |-> cred.TeamID, AppPassword |-> cred.AppPassword,
     ProgressOutput |-> out]

CredA == [Email |-> "a@example.com", TeamID |-> "TEAMA", AppPassword |-> "pw-a"]
CredB == [Email |-> "b@example.com", TeamID |-> "TEAMB", AppPassword |-> "pw-b"]
Credentials == {CredA, CredB}

\* The io.Writer values a caller can put in ProgressOutput.
Writers == {"nil", "writer"}

AllOptions ==
    {NilOptions} \cup {Options(c, w) : c \in Credentials, w \in Writers}

\* Bundle paths used by the caller in Spec and SpecConc.
AppPaths ==
    { <<"Foo", ".", "app">>,
      <<"/", "Apps", "/", "My", ".", "App", ".", "app", "/">> }

\* Every string of at most MaxPathLen tokens over a small alphabet.
PathTokens == {"/", ".", "a"}
PathStrings == UNION {[1..n -> PathTokens] : n \in 0..MaxPathLen}

\* What an external tool may print on its standard error.
StderrTexts == {"diag-1", "diag-2"}
ExitCodes == {0, 1}

\* os.TempDir() and the names MkdirTemp("", "") draws in it.
TempDir == <<"/", "tmp">>
TmpName(n) == TempDir \o <<Separator, ToString(n)>>
TmpNames == {TmpName(n) : n \in 1..NumTmpNames}

NoPath == <<>>

\* error values
NotReturned == [isErr |-> FALSE, msg |-> <<>>, wraps |-> "unset"]
NilError == [isErr |-> FALSE, msg |-> <<>>, wraps |-> "nil"]
\* Mutant of OSError: the setup branch returns nil.
OSError_Nil(op, path, cause) == NilError

\* An error of package os, returned as it is (notarize.go:52, 58): the
\* *fs.PathError{Op, Path, Err}, which prints as "<op> <path>: <cause>".
OSError(op, path, cause) ==
    [isErr |-> TRUE, msg |-> <<op, " ">> \o path \o <<": ", cause>>,
     wraps |-> cause]

\* Why the system calls behind os.MkdirTemp and os.WriteFile fail here.
EACCES == "permission denied"
ENOSPC == "no space left on device"

\* The *exec.ExitError of a non-zero exit.
ExitError(code) == "exit status " \o ToString(code)
\* The *exec.Error of cmd.Run when the program is not found: no process is
\* started.
ExecError(name) ==
    "exec: \"" \o name \o "\": executable file not found in $PATH"
\* The error of the io.Writer in options.ProgressOutput when a Write fails.
WriteError == "progress output: write failed"
\* What cmd.Run returns once the process has exited with status code, its
\* standard output copied to cmd.Stdout or not: the exit error comes first,
\* then the error of the copy, else nil.
RunError(code, copied) ==
    IF code # 0 THEN ExitError(code)
    ELSE IF ~copied THEN WriteError
    ELSE "nil"
\* Mutant of Errorf: the failing branch returns nil.
Errorf_Nil(tool, cause, text) == NilError

\* fmt.Errorf("notarize: <tool> failed: %w: %s", err, buf.String())
Errorf(tool, cause, text) ==
    [isErr |-> TRUE,
     msg |-> <<"notarize: ", tool, " failed: ", cause, ": ">> \o text,
     wraps |-> cause]

\* ------------------------------------------------------------------- state
VARIABLES
    pc,            \* where each invocation stands
    appPath,       \* argument appPath
    options,       \* argument options
    tmp,           \* local tmp
    entitlements,  \* local entitlements
    zipname,       \* local zipname
    zippath,       \* local zippath
    buf,           \* the bytes.Buffer of the current block
    ret,           \* the value returned
    deferred,      \* whether the deferred os.RemoveAll(tmp) is pending
    calls,         \* the exec.Cmd values built so far, with exit and Run's error
    sink,          \* what options.ProgressOutput has received
    emitted,       \* what the last exited tool printed on standard error
    ops,           \* the file-system calls Notarize itself has made
    rmerr,         \* whether os.RemoveAll(tmp) returned an error
    runs,          \* how many calls the caller has made
    prev,          \* the caller's record of its previous call
    fs,            \* the file system: path -> entry
    bundle         \* the state of the bundle at each path

vars == <<pc, appPath, options, tmp, entitlements, zipname, zippath, buf, ret,
          deferred, calls, sink, emitted, ops, rmerr, runs, prev, fs, bundle>>

Ended == {"Done", "Failed", "Panicked"}
Returning == {"Stapled", "Failing", "Panicking"}

\* ------------------------------------------------------------- file system
\* One call of package os made by Notarize, on which path, and the cause of
\* its failure ("" when it succeeded).
Op(name, path, err) ==
    [op |-> name, path |-> path, data |-> <<>>, ok |-> err = "", err |-> err]

\* A call of os.WriteFile(path, data, 0666).
WriteOp(path, data, err) ==
    [op |-> "WriteFile", path |-> path, data |-> data, ok |-> err = "",
     err |-> err]

DirEntry(i) == [kind |-> "dir", data |-> <<>>, by |-> i]
FileEntry(i, data) == [kind |-> "file", data |-> data, by |-> i]

Put(f, path, entry) ==
    [p \in DOMAIN f \cup {path} |-> IF p = path THEN entry ELSE f[p]]

Under(dir, p) == p = dir \/ IsPrefix(dir \o <<Separator>>, p)

\* Mutant of RemoveAll: os.Remove, which removes only an empty directory.
RemoveAll_Remove(f, path) ==
    IF \E q \in DOMAIN f : q # path /\ Under(path, q)
    THEN f
    ELSE [p \in DOMAIN f \ {path} |-> f[p]]

\* os.RemoveAll: path and any children it contains.
RemoveAll(f, path) ==
    [p \in {q \in DOMAIN f : ~Under(path, q)} |-> f[p]]

\* The directory a path lies in.
Parent(path) ==
    LET slashes == {k \in 1..Len(path) : path[k] = Separator}
    IN  IF slashes = {} THEN <<".">> ELSE SubSeq(path, 1, Max(slashes) - 1)

IsDir(f, p) == p \in DOMAIN f /\ f[p].kind = "dir"
IsFile(f, p) == p \in DOMAIN f /\ f[p].kind = "file"

BundleAt(b, p) == IF p \in DOMAIN b THEN b[p] ELSE "built"
SetBundle(b, p, s) == [q \in DOMAIN b \cup {p} |-> IF q = p THEN s ELSE b[q]]

\* How an invocation ends from each way of leaving the function body.
EndOf(p) ==
    CASE p = "Stapled" -> "Done"
      [] p = "Failing" -> "Failed"
      [] OTHER -> "Panicked"

\* ---------------------------------------------------------- external tools
\* The exec.Cmd built by exec.Command(name, args...), Stdout set as given and
\* Stderr set to &buf; exit is -1 while there is no exit status, err is what
\* cmd.Run returned ("unset" until it returns, "nil" for a nil error).
Cmd(name, args, stdout) ==
    [name |-> name, args |-> args, stdout |-> stdout, exit |-> -1,
     err |-> "unset"]

\* Mutant of CodesignCmd: codesign's standard output goes to the sink too.
CodesignCmd_Progress(i) ==
    Cmd("codesign",
        << <<"--display">>, <<"--verbose">>, <<"--verify">>,
           <<"--sign">>, <<options[i].DeveloperName>>,
           <<"--timestamp">>,
           <<"--options">>, <<"runtime">>,
           <<"--force">>,
           <<"--entitlements">>, entitlements[i],
           <<"--deep">>,
           appPath[i] >>,
        options[i].ProgressOutput)

\* Mutant of CodesignCmd: --force is left out.
CodesignCmd_NoForce(i) ==
    Cmd("codesign",
        << <<"--display">>, <<"--verbose">>, <<"--verify">>,
           <<"--sign">>, <<options[i].DeveloperName>>,
           <<"--timestamp">>,
           <<"--options">>, <<"runtime">>,
           <<"--entitlements">>, entitlements[i],
           <<"--deep">>,
           appPath[i] >>,
        "nil")

\* notarize.go:63-73
CodesignCmd(i) ==
    Cmd("codesign",
        << <<"--display">>, <<"--verbose">>, <<"--verify">>,
           <<"--sign">>, <<options[i].DeveloperName>>,
           <<"--timestamp">>,
           <<"--options">>, <<"runtime">>,
           <<"--force">>,
           <<"--entitlements">>, entitlements[i],
           <<"--deep">>,
           appPath[i] >>,
        "nil")

\* Mutant of DittoCmd: the bundle path is cleaned before it is passed on.
DittoCmd_Cleaned(i, zp) ==
    Cmd("ditto",
        << <<"-c">>, <<"-k">>, <<"--keepParent">>, Clean(appPath[i]), zp >>,
        "nil")

\* notarize.go:86
DittoCmd(i, zp) ==
    Cmd("ditto",
        << <<"-c">>, <<"-k">>, <<"--keepParent">>, appPath[i], zp >>,
        "nil")

\* Mutant of NotarytoolCmd: the archive is named without its directory.
NotarytoolCmd_Name(i) ==
    Cmd("xcrun",
        << <<"notarytool">>, <<"submit">>, zipname[i],
           <<"--apple-id">>, <<options[i].Email>>,
           <<"--password">>, <<options[i].AppPassword>>,
           <<"--team-id">>, <<options[i].TeamID>>,
           <<"--wait">> >>,
        options[i].ProgressOutput)

\* notarize.go:96-102
NotarytoolCmd(i) ==
    Cmd("xcrun",
        << <<"notarytool">>, <<"submit">>, zippath[i],
           <<"--apple-id">>, <<options[i].Email>>,
           <<"--password">>, <<options[i].AppPassword>>,
           <<"--team-id">>, <<options[i].TeamID>>,
           <<"--wait">> >>,
        options[i].ProgressOutput)

\* Mutant of StaplerCmd: the stapler is handed the account's password too.
StaplerCmd_Credentials(i) ==
    Cmd("xcrun",
        << <<"stapler">>, <<"staple">>, appPath[i],
           <<"--password">>, <<options[i].AppPassword>> >>,
        options[i].ProgressOutput)

\* notarize.go:111-113
StaplerCmd(i) ==
    Cmd("xcrun",
        << <<"stapler">>, <<"staple">>, appPath[i] >>,
        options[i].ProgressOutput)

\* The program a command runs.
Tool(c) == IF c.name = "xcrun" THEN c.args[1][1] ELSE c.name

\* The argument that follows flag in a command line (NoPath if absent).
ArgAfter(c, flag) ==
    LET at == {k \in 1..(Len(c.args) - 1) : c.args[k] = <<flag>>}
    IN  IF at = {} THEN NoPath ELSE c.args[Min(at) + 1]

LastArg(c) == c.args[Len(c.args)]

\* What the tool prints on its standard output: at most NumChunks chunks,
\* each of which the copying goroutine hands to cmd.Stdout in a Write of its
\* own.
StdoutOf(c) == [n \in 1..NumChunks |-> Tool(c) \o ": progress " \o ToString(n)]

\* Whether the tool can exit with status zero: what it reads must be there.
CanSucceed(c, f) ==
    CASE Tool(c) = "codesign" ->
            LET e == ArgAfter(c, "--entitlements")
            IN  IsFile(f, e) /\ f[e].data = entitlementsPlist
      [] Tool(c) = "ditto" -> IsDir(f, Parent(LastArg(c)))
      [] Tool(c) = "notarytool" ->
            IsFile(f, c.args[3]) /\ Head(f[c.args[3]].data) = "zip"
      [] OTHER -> TRUE

\* notarize.go:70: codesign replaces a signature the bundle already carries
\* only when it is given --force; without it, signing such a bundle fails.
Overwrites(c, b) ==
    Tool(c) = "codesign" =>
        \/ BundleAt(b, LastArg(c)) = "built"
        \/ \E k \in 1..Len(c.args) : c.args[k] = <<"--force">>

\* The worlds <<fs, bundle>> the tool of invocation i may leave behind when
\* it exits with status code (with a non-zero code: also what it may have
\* done so far while it runs).  codesign and stapler change the bundle in
\* place, ditto writes the archive, notarytool changes nothing local.
ToolEffects(i, c, code, f, b) ==
    CASE Tool(c) = "codesign" ->
            IF code = 0
            THEN {<<f, SetBundle(b, LastArg(c), "signed")>>}
            ELSE {<<f, b>>, <<f, SetBundle(b, LastArg(c), "partial")>>}
      [] Tool(c) = "ditto" ->
            IF code = 0
            THEN {<<Put(f, LastArg(c), FileEntry(i, <<"zip">> \o c.args[4])), b>>}
            ELSE {<<f, b>>} \cup
                 (IF IsDir(f, Parent(LastArg(c)))
                  THEN {<<Put(f, LastArg(c), FileEntry(i, <<"partial">>)), b>>}
                  ELSE {})
      [] Tool(c) = "stapler" ->
            IF code = 0
            THEN {<<f, SetBundle(b, LastArg(c), "stapled")>>}
            ELSE {<<f, b>>}
      [] OTHER -> {<<f, b>>}

\* The command invocation i is running or ran last.
cmd(i) == calls[i][Len(calls[i])]

\* The states in which Notarize is inside cmd.Run.
Running == {"codesign", "ditto", "notarytool", "stapler"}

\* How many chunks of the running tool's standard output cmd.Stdout has
\* accepted.
Copied(i) ==
    Cardinality({k \in 1..Len(sink[i]) :
                    \E n \in 1..NumChunks : sink[i][k] = StdoutOf(cmd(i))[n]})

\* Mutant of Start: one buffer is shared by the four blocks.
Start_SharedBuf(i, c, label, running) ==
    /\ calls' = [calls EXCEPT ![i] = Append(@, c)]
    /\ buf' = buf
    /\ pc' = [pc EXCEPT ![i] = running]
    /\ UNCHANGED <<ret, emitted>>

\* Mutant of Failed: the error of cmd.Run is never acted on.
Failed_Never(err) == FALSE

\* The test `err != nil` on the result of cmd.Run (notarize.go:76, 89, 104,
\* 115).
Failed(err) == err # "nil"

\* cmd.Start of cmd.Run with a fresh buf as Stderr: either the process is
\* spawned, or the program cannot be started and cmd.Run returns at once
\* with an error, no process and nothing in buf.
Start(i, c, label, running) ==
    \/ /\ calls' = [calls EXCEPT ![i] = Append(@, c)]
       /\ buf' = [buf EXCEPT ![i] = <<>>]
       /\ pc' = [pc EXCEPT ![i] = running]
       /\ UNCHANGED <<ret, emitted>>
    \/ \E err \in {ExecError(c.name)} :
           /\ Failed(err)
           /\ calls' = [calls EXCEPT ![i] = Append(@, [c EXCEPT !.err = err])]
           /\ buf' = [buf EXCEPT ![i] = <<>>]
           /\ emitted' = [emitted EXCEPT ![i] = <<>>]
           /\ pc' = [pc EXCEPT ![i] = "Failing"]
           /\ ret' = [ret EXCEPT ![i] = Errorf(label, err, <<>>)]

\* While cmd.Run waits, the goroutine of package os/exec copies what the
\* tool prints on its standard output to cmd.Stdout, one Write per chunk
\* (notarize.go:102, 113); it goes on after the tool has exited, until the
\* pipe is drained.
CopyStdout(i) ==
    /\ pc[i] \in Running
    /\ cmd(i).stdout # "nil"
    /\ Copied(i) < NumChunks
    /\ sink' = [sink EXCEPT ![i] = Append(@, StdoutOf(cmd(i))[Copied(i) + 1])]
    /\ UNCHANGED <<pc, appPath, options, tmp, entitlements, zipname, zippath,
                   buf, ret, deferred, calls, emitted, ops, rmerr, runs, prev,
                   fs, bundle>>

\* While cmd.Run waits, the tool works on the bundle or on the archive: what
\* it has done so far is there before it exits.
Working(i) ==
    /\ pc[i] \in {"codesign", "ditto"}
    /\ cmd(i).exit = -1
    /\ \E w \in ToolEffects(i, cmd(i), 1, fs, bundle) :
           /\ w # <<fs, bundle>>
           /\ fs' = w[1]
           /\ bundle' = w[2]
    /\ UNCHANGED <<pc, appPath, options, tmp, entitlements, zipname, zippath,
                   buf, ret, deferred, calls, sink, emitted, ops, rmerr, runs,
                   prev>>

\* The tool cmd.Run waits for exits with some status, having printed on its
\* standard error, which buf captures.  With status zero it has done its
\* work; otherwise it may have done part of it.  cmd.Run has not returned
\* yet: cmd.Wait still awaits the goroutines copying the output.
Exit(i, texts) ==
    /\ pc[i] \in Running
    /\ cmd(i).exit = -1
    /\ \E code \in ExitCodes, t \in texts :
           /\ code = 0 => (CanSucceed(cmd(i), fs) /\ Overwrites(cmd(i), bundle))
           /\ \E w \in ToolEffects(i, cmd(i), code, fs, bundle) :
                  /\ fs' = w[1]
                  /\ bundle' = w[2]
           /\ calls' = [calls EXCEPT ![i][Len(calls[i])].exit = code]
           /\ buf' = [buf EXCEPT ![i] = Append(@, t)]
           /\ emitted' = [emitted EXCEPT ![i] = <<t>>]
    /\ UNCHANGED <<pc, appPath, options, tmp, entitlements, zipname, zippath,
                   ret, deferred, sink, ops, rmerr, runs, prev>>

\* cmd.Wait of cmd.Run returns and its error is tested: the tool has exited
\* and the copy of its standard output has ended, everything the tool
\* printed having been written (copied), or the Write of the next chunk
\* having failed.
Wait(i, label, next, result) ==
    /\ cmd(i).exit >= 0
    /\ \E copied \in BOOLEAN :
           /\ ~copied => (cmd(i).stdout # "nil" /\ Copied(i) < NumChunks)
           /\ \E err \in {RunError(cmd(i).exit, copied)} :
                  /\ calls' = [calls EXCEPT ![i][Len(calls[i])].err = err]
                  /\ IF ~Failed(err)
                     THEN /\ pc' = [pc EXCEPT ![i] = next]
                          /\ ret' = [ret EXCEPT ![i] = result]
                     ELSE /\ pc' = [pc EXCEPT ![i] = "Failing"]
                          /\ ret' = [ret EXCEPT ![i] = Errorf(label, err, buf[i])]

\* -------------------------------------------------------------- Notarize
Summary(i) ==
    [pc |-> pc[i], ops |-> ops[i], appPath |-> appPath[i], options |-> options[i],
     calls |-> calls[i], ret |-> ret[i], sink |-> sink[i]]

NoSummary ==
    [pc |-> "idle", ops |-> <<>>, appPath |-> NoPath, options |-> NilOptions,
     calls |-> <<>>, ret |-> NotReturned, sink |-> <<>>]

\* The caller calls Notarize(appPath, options); its previous call, if any,
\* has ended.
Call(i, paths, opts, limit) ==
    /\ pc[i] \in {"idle"} \cup Ended
    /\ runs[i] < limit
    /\ \E p \in paths, o \in opts :
           /\ appPath' = [appPath EXCEPT ![i] = p]
           /\ options' = [options EXCEPT ![i] = o]
    /\ prev' = [prev EXCEPT ![i] = IF pc[i] = "idle" THEN @ ELSE Summary(i)]
    /\ runs' = [runs EXCEPT ![i] = @ + 1]
    /\ pc' = [pc EXCEPT ![i] = "Start"]
    /\ tmp' = [tmp EXCEPT ![i] = NoPath]
    /\ entitlements' = [entitlements EXCEPT ![i] = NoPath]
    /\ zipname' = [zipname EXCEPT ![i] = NoPath]
    /\ zippath' = [zippath EXCEPT ![i] = NoPath]
    /\ buf' = [buf EXCEPT ![i] = <<>>]
    /\ ret' = [ret EXCEPT ![i] = NotReturned]
    /\ deferred' = [deferred EXCEPT ![i] = FALSE]
    /\ calls' = [calls EXCEPT ![i] = <<>>]
    /\ sink' = [sink EXCEPT ![i] = <<>>]
    /\ emitted' = [emitted EXCEPT ![i] = <<>>]
    /\ ops' = [ops EXCEPT ![i] = <<>>]
    /\ rmerr' = [rmerr EXCEPT ![i] = FALSE]
    /\ UNCHANGED <<fs, bundle>>

\* Mutant of MkdirTemp: a directory of a fixed name, made if missing.
MkdirTemp_FixedName(i) ==
    /\ pc[i] = "Start"
    /\ fs' = Put(fs, TmpName(1), DirEntry(i))
    /\ tmp' = [tmp EXCEPT ![i] = TmpName(1)]
    /\ ops' = [ops EXCEPT ![i] = Append(@, Op("MkdirTemp", TmpName(1), ""))]
    /\ deferred' = [deferred EXCEPT ![i] = TRUE]
    /\ pc' = [pc EXCEPT ![i] = "TmpCreated"]
    /\ UNCHANGED <<appPath, options, entitlements, zipname, zippath, buf, ret,
                   calls, sink, emitted, rmerr, runs, prev, bundle>>

\* notarize.go:50-54, os.MkdirTemp succeeds: a directory that did not exist
\* is created and its removal is deferred.
MkdirTemp(i) ==
    /\ pc[i] = "Start"
    /\ \E d \in TmpNames :
           /\ d \notin DOMAIN fs
           /\ fs' = Put(fs, d, DirEntry(i))
           /\ tmp' = [tmp EXCEPT ![i] = d]
           /\ ops' = [ops EXCEPT ![i] = Append(@, Op("MkdirTemp", d, ""))]
    /\ deferred' = [deferred EXCEPT ![i] = TRUE]
    /\ pc' = [pc EXCEPT ![i] = "TmpCreated"]
    /\ UNCHANGED <<appPath, options, entitlements, zipname, zippath, buf, ret,
                   calls, sink, emitted, rmerr, runs, prev, bundle>>

\* notarize.go:50-53, os.MkdirTemp fails: the error of the os.Mkdir of the
\* name it tried is returned as it is.
MkdirTempFails(i) ==
    /\ pc[i] = "Start"
    /\ \E d \in TmpNames :
           /\ ret' = [ret EXCEPT ![i] = OSError("mkdir", d, EACCES)]
           /\ ops' = [ops EXCEPT ![i] = Append(@, Op("MkdirTemp", d, EACCES))]
    /\ pc' = [pc EXCEPT ![i] = "Failing"]
    /\ UNCHANGED <<appPath, options, tmp, entitlements, zipname, zippath, buf,
                   deferred, calls, sink, emitted, rmerr, runs, prev, fs, bundle>>

\* notarize.go:56-59, os.WriteFile succeeds.
WriteFile(i) ==
    /\ pc[i] = "TmpCreated"
    /\ IsDir(fs, tmp[i])
    /\ \E e \in {EntitlementsPath(tmp[i])} :
           /\ entitlements' = [entitlements EXCEPT ![i] = e]
           /\ fs' = Put(fs, e, FileEntry(i, entitlementsPlist))
           /\ ops' = [ops EXCEPT ![i] = Append(@, WriteOp(e, entitlementsPlist, ""))]
    /\ pc' = [pc EXCEPT ![i] = "EntitlementsWritten"]
    /\ UNCHANGED <<appPath, options, tmp, zipname, zippath, buf, ret, deferred,
                   calls, sink, emitted, rmerr, runs, prev, bundle>>

\* Mutant of WriteFileFails: the error of os.WriteFile is ignored.
WriteFileFails_Ignored(i) ==
    /\ pc[i] = "TmpCreated"
    /\ entitlements' = [entitlements EXCEPT ![i] = EntitlementsPath(tmp[i])]
    /\ ops' = [ops EXCEPT ![i] =
                  Append(@, WriteOp(EntitlementsPath(tmp[i]), entitlementsPlist,
                                  EACCES))]
    /\ pc' = [pc EXCEPT ![i] = "EntitlementsWritten"]
    /\ UNCHANGED <<appPath, options, tmp, zipname, zippath, buf, ret, deferred,
                   calls, sink, emitted, rmerr, runs, prev, fs, bundle>>

\* notarize.go:56-59, os.WriteFile fails: either the file cannot be opened,
\* or it is created and the write to it fails.  The error is returned as it
\* is.
WriteFileFails(i) ==
    /\ pc[i] = "TmpCreated"
    /\ \E e \in {EntitlementsPath(tmp[i])} :
           /\ entitlements' = [entitlements EXCEPT ![i] = e]
           /\ \/ /\ fs' = fs
                 /\ ops' = [ops EXCEPT ![i] =
                               Append(@, WriteOp(e, entitlementsPlist, EACCES))]
                 /\ ret' = [ret EXCEPT ![i] = OSError("open", e, EACCES)]
              \/ /\ IsDir(fs, tmp[i])
                 /\ fs' = Put(fs, e, FileEntry(i, <<>>))
                 /\ ops' = [ops EXCEPT ![i] =
                               Append(@, WriteOp(e, entitlementsPlist, ENOSPC))]
                 /\ ret' = [ret EXCEPT ![i] = OSError("write", e, ENOSPC)]
    /\ pc' = [pc EXCEPT ![i] = "Failing"]
    /\ UNCHANGED <<appPath, options, tmp, zipname, zippath, buf, deferred,
                   calls, sink, emitted, rmerr, runs, prev, bundle>>

\* Mutant of Codesign: nil options are checked for and refused with an error.
Codesign_NilChecked(i) ==
    /\ pc[i] = "EntitlementsWritten"
    /\ IF options[i].ptr = "nil"
       THEN /\ pc' = [pc EXCEPT ![i] = "Failing"]
            /\ ret' = [ret EXCEPT ![i] =
                          OSError("notarize", <<"options">>, "nil pointer")]
            /\ UNCHANGED <<calls, buf, emitted>>
       ELSE Start(i, CodesignCmd(i), "codesign", "codesign")
    /\ UNCHANGED <<appPath, options, tmp, entitlements, zipname, zippath,
                   deferred, sink, ops, rmerr, runs, prev, fs, bundle>>

\* notarize.go:63-76: the codesign command is built and started.  Reading
\* options.DeveloperName through a nil pointer panics before any process.
Codesign(i) ==
    /\ pc[i] = "EntitlementsWritten"
    /\ IF options[i].ptr = "nil"
       THEN /\ pc' = [pc EXCEPT ![i] = "Panicking"]
            /\ UNCHANGED <<calls, buf, ret, emitted>>
       ELSE Start(i, CodesignCmd(i), "codesign", "codesign")
    /\ UNCHANGED <<appPath, options, tmp, entitlements, zipname, zippath,
                   deferred, sink, ops, rmerr, runs, prev, fs, bundle>>

\* notarize.go:76-78
CodesignWait(i) ==
    /\ pc[i] = "codesign"
    /\ Wait(i, "codesign", "Signed", ret[i])
    /\ UNCHANGED <<appPath, options, tmp, entitlements, zipname, zippath, buf,
                   deferred, sink, emitted, ops, rmerr, runs, prev, fs, bundle>>

\* Mutant of Ditto: the archiving block is skipped.
Ditto_Skipped(i) ==
    /\ pc[i] = "Signed"
    /\ pc' = [pc EXCEPT ![i] = "Archived"]
    /\ UNCHANGED <<appPath, options, tmp, entitlements, zipname, zippath, buf,
                   ret, deferred, calls, sink, emitted, ops, rmerr, runs, prev,
                   fs, bundle>>

\* notarize.go:82-89: the archive's path is derived, ditto is started.
Ditto(i) ==
    /\ pc[i] = "Signed"
    /\ \E zn \in {ZipName(appPath[i])} :
           \E zp \in {Join(tmp[i], zn)} :
               /\ zipname' = [zipname EXCEPT ![i] = zn]
               /\ zippath' = [zippath EXCEPT ![i] = zp]
               /\ Start(i, DittoCmd(i, zp), "ditto", "ditto")
    /\ UNCHANGED <<appPath, options, tmp, entitlements, deferred, sink, ops,
                   rmerr, runs, prev, fs, bundle>>

\* notarize.go:89-91
DittoWait(i) ==
    /\ pc[i] = "ditto"
    /\ Wait(i, "ditto", "Archived", ret[i])
    /\ UNCHANGED <<appPath, options, tmp, entitlements, zipname, zippath, buf,
                   deferred, sink, emitted, ops, rmerr, runs, prev, fs, bundle>>

\* notarize.go:96-104
Notarytool(i) ==
    /\ pc[i] = "Archived"
    /\ Start(i, NotarytoolCmd(i), "xcrun notarytool", "notarytool")
    /\ UNCHANGED <<appPath, options, tmp, entitlements, zipname, zippath,
                   deferred, sink, ops, rmerr, runs, prev, fs, bundle>>

\* notarize.go:104-106
NotarytoolWait(i) ==
    /\ pc[i] = "notarytool"
    /\ Wait(i, "xcrun notarytool", "Submitted", ret[i])
    /\ UNCHANGED <<appPath, options, tmp, entitlements, zipname, zippath, buf,
                   deferred, sink, emitted, ops, rmerr, runs, prev, fs, bundle>>

\* notarize.go:111-115
Stapler(i) ==
    /\ pc[i] = "Submitted"
    /\ Start(i, StaplerCmd(i), "xcrun stapler", "stapler")
    /\ UNCHANGED <<appPath, options, tmp, entitlements, zipname, zippath,
                   deferred, sink, ops, rmerr, runs, prev, fs, bundle>>

\* Mutant of StaplerWait: a failed stapler is run again.
StaplerWait_Retry(i) ==
    /\ pc[i] = "stapler"
    /\ \/ /\ Wait(i, "xcrun stapler", "Stapled", NilError)
          /\ pc'[i] = "Stapled"
       \/ /\ cmd(i).exit >= 0
          /\ pc' = [pc EXCEPT ![i] = "Submitted"]
          /\ calls' = [calls EXCEPT ![i] = SubSeq(@, 1, Len(@) - 1)]
          /\ UNCHANGED ret
    /\ UNCHANGED <<appPath, options, tmp, entitlements, zipname, zippath, buf,
                   deferred, sink, emitted, ops, rmerr, runs, prev, fs, bundle>>

\* notarize.go:115-120: with a nil error of cmd.Run Notarize returns nil.
StaplerWait(i) ==
    /\ pc[i] = "stapler"
    /\ Wait(i, "xcrun stapler", "Stapled", NilError)
    /\ UNCHANGED <<appPath, options, tmp, entitlements, zipname, zippath, buf,
                   deferred, sink, emitted, ops, rmerr, runs, prev, fs, bundle>>

\* Mutant of Return: a failing invocation puts the bundle back as it was.
Return_Rollback(i) ==
    /\ pc[i] \in Returning
    /\ IF deferred[i]
       THEN /\ fs' = RemoveAll(fs, tmp[i])
            /\ ops' = [ops EXCEPT ![i] = Append(@, Op("RemoveAll", tmp[i], ""))]
       ELSE UNCHANGED <<fs, ops>>
    /\ bundle' = IF pc[i] = "Failing"
                 THEN SetBundle(bundle, appPath[i], "built")
                 ELSE bundle
    /\ deferred' = [deferred EXCEPT ![i] = FALSE]
    /\ pc' = [pc EXCEPT ![i] = EndOf(pc[i])]
    /\ UNCHANGED <<appPath, options, tmp, entitlements, zipname, zippath, buf,
                   ret, calls, sink, emitted, rmerr, runs, prev>>

\* The function ends (return or panic): the deferred os.RemoveAll(tmp) of
\* notarize.go:54 runs if it was registered, and control goes back to the
\* caller.
Return(i) ==
    /\ pc[i] \in Returning
    /\ IF deferred[i]
       THEN /\ fs' = RemoveAll(fs, tmp[i])
            /\ ops' = [ops EXCEPT ![i] = Append(@, Op("RemoveAll", tmp[i], ""))]
       ELSE UNCHANGED <<fs, ops>>
    /\ deferred' = [deferred EXCEPT ![i] = FALSE]
    /\ pc' = [pc EXCEPT ![i] = EndOf(pc[i])]
    /\ UNCHANGED <<appPath, options, tmp, entitlements, zipname, zippath, buf,
                   ret, calls, sink, emitted, rmerr, runs, prev, bundle>>

\* The same, os.RemoveAll failing: it removes what it can (here the files,
\* or nothing) and returns an error, which the defer statement drops.
ReturnRemoveFails(i) ==
    /\ pc[i] \in Returning
    /\ deferred[i]
    /\ \/ fs' = fs
       \/ fs' = Put(RemoveAll(fs, tmp[i]), tmp[i], fs[tmp[i]])
    /\ ops' = [ops EXCEPT ![i] = Append(@, Op("RemoveAll", tmp[i], EACCES))]
    /\ rmerr' = [rmerr EXCEPT ![i] = TRUE]
    /\ deferred' = [deferred EXCEPT ![i] = FALSE]
    /\ pc' = [pc EXCEPT ![i] = EndOf(pc[i])]
    /\ UNCHANGED <<appPath, options, tmp, entitlements, zipname, zippath, buf,
                   ret, calls, sink, emitted, runs, prev, bundle>>

\* ---------------------------------------------------------- specifications
Init ==
    /\ pc = [i \in Invs |-> "idle"]
    /\ appPath = [i \in Invs |-> NoPath]
    /\ options = [i \in Invs |-> NilOptions]
    /\ tmp = [i \in Invs |-> NoPath]
    /\ entitlements = [i \in Invs |-> NoPath]
    /\ zipname = [i \in Invs |-> NoPath]
    /\ zippath = [i \in Invs |-> NoPath]
    /\ buf = [i \in Invs |-> <<>>]
    /\ ret = [i \in Invs |-> NotReturned]
    /\ deferred = [i \in Invs |-> FALSE]
    /\ calls = [i \in Invs |-> <<>>]
    /\ sink = [i \in Invs |-> <<>>]
    /\ emitted = [i \in Invs |-> <<>>]
    /\ ops = [i \in Invs |-> <<>>]
    /\ rmerr = [i \in Invs |-> FALSE]
    /\ runs = [i \in Invs |-> 0]
    /\ prev = [i \in Invs |-> NoSummary]
    /\ fs = [p \in {TempDir} |-> DirEntry(0)]
    /\ bundle = <<>>

\* One step of invocation i, the tools printing texts.
Step(i, texts) ==
    \/ MkdirTemp(i)
    \/ MkdirTempFails(i)
    \/ WriteFile(i)
    \/ WriteFileFails(i)
    \/ Codesign(i)
    \/ CodesignWait(i)
    \/ Ditto(i)
    \/ DittoWait(i)
    \/ Notarytool(i)
    \/ NotarytoolWait(i)
    \/ Stapler(i)
    \/ StaplerWait(i)
    \/ CopyStdout(i)
    \/ Working(i)
    \/ Exit(i, texts)
    \/ Return(i)
    \/ ReturnRemoveFails(i)

\* One call of Notarize.
Next ==
    \/ Call(1, AppPaths, AllOptions, 1)
    \/ Step(1, StderrTexts)

Spec == Init /\ [][Next]_vars

\* One caller making up to MaxRuns calls on the same bundle, one after the
\* other, each after the one before it has ended.
RerunPaths == {<<"Foo", ".", "app">>}

NextRerun ==
    \/ Call(1, RerunPaths, AllOptions, MaxRuns)
    \/ Step(1, StderrTexts)

SpecRerun == Init /\ [][NextRerun]_vars

\* NumInv callers, each making one call, their steps interleaved.
ConcOptions == {Options(CredA, "writer")}
ConcTexts == {"diag-1"}

NextConc ==
    \E i \in Invs :
        \/ Call(i, RerunPaths, ConcOptions, 1)
        \/ Step(i, ConcTexts)

SpecConc == Init /\ [][NextConc]_vars

\* One call of Notarize on every bundle path of at most MaxPathLen tokens.
PathOptions == {Options(CredA, "writer")}

NextPath ==
    \/ Call(1, PathStrings, PathOptions, 1)
    \/ Step(1, ConcTexts)

SpecPath == Init /\ [][NextPath]_vars

\* The steps Notarize takes by itself, the exits of the tools it waits for
\* in cmd.Run, and the returns of cmd.Run once the tool has exited and the
\* copy of its output has ended.
OwnSteps(i) ==
    \/ MkdirTemp(i)
    \/ MkdirTempFails(i)
    \/ WriteFile(i)
    \/ WriteFileFails(i)
    \/ Codesign(i)
    \/ Ditto(i)
    \/ Notarytool(i)
    \/ Stapler(i)
    \/ Return(i)
    \/ ReturnRemoveFails(i)

ToolExits(i, texts) == Exit(i, texts)

RunReturns(i) ==
    \/ CodesignWait(i)
    \/ DittoWait(i)
    \/ NotarytoolWait(i)
    \/ StaplerWait(i)

\* One call of Notarize, on one bundle, that keeps being scheduled, every
\* tool it starts exiting in the end.  Nothing is assumed here on the copy
\* of a tool's output: a Write of the progress sink that never returns keeps
\* cmd.Run from returning.
NextLive ==
    \/ Call(1, RerunPaths, AllOptions, 1)
    \/ Step(1, ConcTexts)

SpecLive ==
    /\ Init
    /\ [][NextLive]_vars
    /\ WF_vars(OwnSteps(1))
    /\ WF_vars(ToolExits(1, ConcTexts))

\* ------------------------------------------------------------ vocabulary
FourTools == <<"codesign", "ditto", "notarytool", "stapler">>

\* The tools invocation i has started, in order.
ToolsOf(i) == [k \in 1..Len(calls[i]) |-> Tool(calls[i][k])]

OpsOf(i, name) == {k \in 1..Len(ops[i]) : ops[i][k].op = name}
Created(i) == \E k \in OpsOf(i, "MkdirTemp") : ops[i][k].ok
Written(i) == \E k \in OpsOf(i, "WriteFile") : ops[i][k].ok
SetupFailed(i) ==
    \E k \in OpsOf(i, "MkdirTemp") \cup OpsOf(i, "WriteFile") : ~ops[i][k].ok

\* The deferred os.RemoveAll ran and returned nil / returned an error.
Removed(i) == \E k \in OpsOf(i, "RemoveAll") : ops[i][k].ok
RemoveFailed(i) == \E k \in OpsOf(i, "RemoveAll") : ~ops[i][k].ok

\* Each of the four tools was invoked and exited with status zero.
AllZero(i) ==
    /\ ToolsOf(i) = FourTools
    /\ \A k \in 1..Len(calls[i]) : calls[i][k].exit = 0

\* cmd.Run of command c has returned, its process, if any, having exited.
RunReturned(c) == c.err # "unset" /\ (c.exit >= 0 \/ c.err # "nil")

\* cmd.Run of command c has returned an error.
RunFailed(c) == c.err \notin {"unset", "nil"}

\* An error occurred in the setup or in one of the four steps.
StepError(i) ==
    SetupFailed(i) \/ \E k \in 1..Len(calls[i]) : RunFailed(calls[i][k])

\* cmd.Run returned nil for each of the four commands.
AllRunsNil(i) ==
    /\ ToolsOf(i) = FourTools
    /\ \A k \in 1..Len(calls[i]) : calls[i][k].err = "nil"

\* The tool of command c exited with status zero and the copy of its
\* standard output to the progress sink failed.
CopyFailed(c) == c.exit = 0 /\ c.stdout # "nil" /\ c.err = WriteError

Returned(i) == pc[i] \in {"Done", "Failed"}
ReturnedSuccess(i) == Returned(i) /\ ret[i] = NilError
ReturnedFailure(i) == Returned(i) /\ ret[i].isErr

\* The panic of a nil options pointer at notarize.go:67.
NilFault(i) ==
    /\ options[i].ptr = "nil"
    /\ pc[i] = "Panicked"
    /\ Written(i)
    /\ calls[i] = <<>>
    /\ ret[i] = NotReturned

\* ---------------------------------------------------------------- claims
\* C1 (as claimed): Notarize returns success if and only if the working
\* directory was created, the entitlements file was written and each of the
\* four tools was invoked and exited with zero status; every other run
\* returns a failure.
C1_EveryOtherRunFails ==
    \A i \in Invs :
        pc[i] \in Ended =>
            /\ ReturnedSuccess(i) <=> (Created(i) /\ Written(i) /\ AllZero(i))
            /\ ~ReturnedSuccess(i) => ReturnedFailure(i)

\* C1 (amended): Notarize returns success if and only if the working
\* directory was created, the entitlements file was written and cmd.Run
\* returned nil for each of the four tools: the tool was started, exited
\* with zero status and, for submission and stapling with a progress sink
\* set, its output was written to the sink without error.  Every other run
\* returns a failure, except the run with nil options, which panics after the
\* entitlements file was written and returns nothing.
C1_SuccessIffAllSteps ==
    \A i \in Invs :
        pc[i] \in Ended =>
            /\ ReturnedSuccess(i) <=> (Created(i) /\ Written(i) /\ AllRunsNil(i))
            /\ AllRunsNil(i) => AllZero(i)
            /\ (AllZero(i) /\ ~AllRunsNil(i)) =>
                   \E k \in 3..4 : CopyFailed(calls[i][k])
            /\ ~ReturnedSuccess(i) => (ReturnedFailure(i) \/ NilFault(i))
            /\ ~(ReturnedFailure(i) /\ NilFault(i))
            /\ (options[i].ptr = "nil" /\ Written(i)) => NilFault(i)

C1_Witness ==
    \E i \in Invs :
        /\ ReturnedSuccess(i) /\ Created(i) /\ Written(i) /\ AllRunsNil(i)
        /\ options[i].ProgressOutput # "nil"

\* C2 (as claimed): when an invocation that created a working directory has
\* ended, on whichever path (success, failed write, failed step, panic),
\* neither the directory nor anything in it exists, and os.RemoveAll ran
\* exactly once, on that directory; it never runs more than once.
C2_AlwaysRemoved ==
    \A i \in Invs :
        /\ Cardinality(OpsOf(i, "RemoveAll")) <= 1
        /\ (pc[i] \in Ended /\ Created(i)) =>
              /\ \A p \in DOMAIN fs : ~Under(tmp[i], p)
              /\ Cardinality(OpsOf(i, "RemoveAll")) = 1
              /\ \A k \in OpsOf(i, "RemoveAll") : ops[i][k].path = tmp[i]

\* C2 (amended): when an invocation that created a working directory has
\* ended, on whichever path (success, failed write, failed step, panic),
\* os.RemoveAll ran exactly once, on that directory, and it never runs more
\* than once or in an invocation that created no directory; neither the
\* directory nor anything in it exists if os.RemoveAll succeeded, and if it
\* failed the directory is still there, the error is dropped and what is
\* returned is not changed by it.
C2_CleanedUpOnce ==
    \A i \in Invs :
        /\ Cardinality(OpsOf(i, "RemoveAll")) <= 1
        /\ OpsOf(i, "RemoveAll") # {} => (pc[i] \in Ended /\ Created(i))
        /\ (pc[i] \in Ended /\ Created(i)) =>
              /\ Cardinality(OpsOf(i, "RemoveAll")) = 1
              /\ \A k \in OpsOf(i, "RemoveAll") : ops[i][k].path = tmp[i]
              /\ Removed(i) => \A p \in DOMAIN fs : ~Under(tmp[i], p)
              /\ RemoveFailed(i) => IsDir(fs, tmp[i])
              /\ ret[i].isErr <=> StepError(i)

C2_Witness ==
    \E i \in Invs :
        /\ pc[i] = "Panicked"
        /\ Created(i) /\ Written(i)
        /\ tmp[i] \notin DOMAIN fs
        /\ entitlements[i] \notin DOMAIN fs

\* C3: a tool is started only if every tool started before it in the same
\* invocation exited with zero status, cmd.Run returning nil, and the setup
\* succeeded; after a failed codesign no other tool is started and no
\* archive is written.
C3_StepsGated ==
    \A i \in Invs :
        /\ \A k \in 1..(Len(calls[i]) - 1) :
               calls[i][k].exit = 0 /\ calls[i][k].err = "nil"
        /\ calls[i] # <<>> => (Created(i) /\ Written(i) /\ ~SetupFailed(i))
        /\ (calls[i] # <<>> /\ RunFailed(calls[i][1])) =>
              /\ ToolsOf(i) = <<"codesign">>
              /\ zippath[i] = NoPath
              /\ \A p \in DOMAIN fs : fs[p].by = i => p \in {tmp[i], entitlements[i]}

C3_Witness ==
    \E i \in Invs :
        /\ pc[i] = "Failed"
        /\ ToolsOf(i) = <<"codesign">>
        /\ calls[i][1].exit = 1

\* The steps of the code along the path Start .. Done.
MainEdges ==
    { <<"Start", "TmpCreated">>, <<"TmpCreated", "EntitlementsWritten">>,
      <<"EntitlementsWritten", "codesign">>, <<"codesign", "Signed">>,
      <<"Signed", "ditto">>, <<"ditto", "Archived">>,
      <<"Archived", "notarytool">>, <<"notarytool", "Submitted">>,
      <<"Submitted", "stapler">>, <<"stapler", "Stapled">>,
      <<"Stapled", "Done">> }


\* The tool started from each point of the path.
NextTool ==
    [p \in {"EntitlementsWritten", "Signed", "Archived", "Submitted"} |->
        CASE p = "EntitlementsWritten" -> "codesign"
          [] p = "Signed" -> "ditto"
          [] p = "Archived" -> "notarytool"
          [] OTHER -> "stapler"]

\* A step of invocation i that leaves the path for Failed: a setup call
\* failed, the next tool could not be started, or cmd.Run of the tool that
\* was running returned an error.
FailEdge(i) ==
    \/ /\ pc[i] \in {"Start", "TmpCreated"}
       /\ pc'[i] = "Failing"
       /\ SetupFailed(i)'
    \/ /\ pc[i] \in DOMAIN NextTool
       /\ pc'[i] = "Failing"
       /\ Len(calls'[i]) = Len(calls[i]) + 1
       /\ Tool(cmd(i)') = NextTool[pc[i]]
       /\ cmd(i)'.exit = -1
       /\ RunFailed(cmd(i)')
    \/ /\ pc[i] \in Running
       /\ pc'[i] = "Failing"
       /\ Tool(cmd(i)') = pc[i]
       /\ cmd(i)'.exit >= 0
       /\ RunFailed(cmd(i)')
    \/ pc[i] = "Failing" /\ pc'[i] = "Failed"

\* A step of invocation i that leaves the path by a panic.
PanicEdge(i) ==
    \/ /\ pc[i] = "EntitlementsWritten"
       /\ pc'[i] = "Panicking"
       /\ options[i].ptr = "nil"
    \/ pc[i] = "Panicking" /\ pc'[i] = "Panicked"

CallEdge(i) == pc[i] \in {"idle"} \cup Ended /\ pc'[i] = "Start"

\* The tools were started in the order sign, archive, submit, staple, each
\* at most once and none skipped.
InOrder(i) ==
    /\ Len(calls[i]) <= Len(FourTools)
    /\ ToolsOf(i) = SubSeq(FourTools, 1, Len(calls[i]))

\* C4 (as claimed): the tools are invoked in the order sign, archive, submit,
\* staple, each at most once, none retried or skipped, and the run follows
\* Start, EntitlementsWritten, Signed, Archived, Submitted, Stapled, Done,
\* leaving this path only to Failed at the step that failed.
C4_OnlyToFailed ==
    [][\A i \in Invs :
          /\ InOrder(i)'
          /\ pc'[i] # pc[i] =>
                \/ <<pc[i], pc'[i]>> \in MainEdges
                \/ FailEdge(i)
                \/ CallEdge(i)]_vars

\* C4 (amended): the tools are invoked in the order sign, archive, submit,
\* staple, each at most once, none retried or skipped, and the run follows
\* Start, EntitlementsWritten, Signed, Archived, Submitted, Stapled, Done,
\* leaving this path only to Failed at the step that failed (a setup call,
\* the tool that could not be started or the tool then running), or, when
\* options is nil, by a panic taken at EntitlementsWritten before codesign is
\* started.
C4_FixedOrder ==
    [][\A i \in Invs :
          /\ InOrder(i)'
          /\ pc'[i] # pc[i] =>
                \/ <<pc[i], pc'[i]>> \in MainEdges
                \/ FailEdge(i)
                \/ PanicEdge(i)
                \/ CallEdge(i)]_vars

C4_Witness ==
    \E i \in Invs : pc[i] = "Done" /\ ToolsOf(i) = FourTools

\* C5: if os.MkdirTemp or os.WriteFile fails, no tool is ever started, the
\* bundle is as it was, and the invocation ends returning a failure.
C5_SetupFailure ==
    \A i \in Invs :
        SetupFailed(i) =>
            /\ calls[i] = <<>>
            /\ BundleAt(bundle, appPath[i]) = "built"
            /\ pc[i] \in {"Failing", "Failed"}
            /\ ret[i].isErr

C5_Witness ==
    \E i \in Invs :
        /\ pc[i] = "Failed"
        /\ \E k \in OpsOf(i, "WriteFile") : ~ops[i][k].ok
        /\ calls[i] = <<>>

\* The name the message of a failed command gives its step.
StepLabel(c) == IF c.name = "xcrun" THEN "xcrun " \o c.args[1][1] ELSE c.name

\* The error names a step the way Notarize names one.
NamesStep(e) ==
    /\ Len(e.msg) >= 5
    /\ e.msg[1] = "notarize: "
    /\ e.msg[2] \in {"codesign", "ditto", "xcrun notarytool", "xcrun stapler"}
    /\ e.msg[3] = " failed: "

\* The error cmd.Run gives for what happened to command c: the program was
\* not started, it exited with a non-zero status, or it exited with status
\* zero and its output could not be written to the progress sink.
CauseOf(c) ==
    IF c.exit < 0 THEN "exec: \"" \o c.name \o
                           "\": executable file not found in $PATH"
    ELSE IF c.exit > 0 THEN "exit status " \o ToString(c.exit)
    ELSE "progress output: write failed"

\* The error of a failed command: step name, the error of cmd.Run, and
\* exactly what that command printed on its standard error (nothing when it
\* was never started).
IsToolFailure(i, e) ==
    LET c == cmd(i)
    IN  /\ RunFailed(c)
        /\ NamesStep(e)
        /\ e.msg[2] = StepLabel(c)
        /\ e.msg[4] = CauseOf(c)
        /\ e.wraps = e.msg[4]
        /\ e.msg[5] = ": "
        /\ From(e.msg, 6) = emitted[i]
        /\ c.exit < 0 => emitted[i] = <<>>

\* The setup call of invocation i that failed.
FailedOp(i) ==
    ops[i][CHOOSE k \in 1..Len(ops[i]) :
               ops[i][k].op \in {"MkdirTemp", "WriteFile"} /\ ~ops[i][k].ok]

\* The error of a failed setup call: the error of package os, unchanged,
\* which gives the system call, the path it was made on and its cause.
IsSetupFailure(i, e) ==
    /\ SetupFailed(i)
    /\ ~NamesStep(e)
    /\ e.msg[1] \in (IF Created(i) THEN {"open", "write"} ELSE {"mkdir"})
    /\ e.msg = <<e.msg[1], " ">> \o FailedOp(i).path \o <<": ", e.wraps>>
    /\ e.wraps = FailedOp(i).err
    /\ e.wraps \in {"permission denied", "no space left on device"}
    /\ FailedOp(i).path =
           (IF Created(i) THEN tmp[i] \o <<"/", "entitlements", ".", "plist">>
            ELSE FailedOp(i).path)
    /\ Under(<<"/", "tmp">>, FailedOp(i).path)

\* C6 (as claimed): every failure Notarize returns carries the name of the
\* failing step and the underlying error, and for a failed tool the tool's
\* standard-error text, and only that.
C6_EveryFailureNamesStep ==
    \A i \in Invs :
        ret[i].isErr =>
            /\ NamesStep(ret[i])
            /\ calls[i] # <<>> => IsToolFailure(i, ret[i])

\* C6 (amended): every failure Notarize returns for a failed external tool
\* carries the name of that step, the underlying error of cmd.Run and the
\* tool's captured standard-error text verbatim, and only the failing step's
\* text;
\* a failure of os.MkdirTemp or os.WriteFile is returned as the os error
\* itself, to which Notarize adds no step name.
C6_FailureMessage ==
    \A i \in Invs :
        ret[i].isErr =>
            IF calls[i] = <<>>
            THEN IsSetupFailure(i, ret[i])
            ELSE IsToolFailure(i, ret[i])

C6_Witness ==
    \E i \in Invs :
        /\ pc[i] = "Failed"
        /\ calls[i] # <<>>
        /\ Tool(cmd(i)) = "notarytool"
        /\ cmd(i).exit = 0
        /\ IsToolFailure(i, ret[i])
        /\ ret[i].msg[2] = "xcrun notarytool"
        /\ ret[i].msg[4] = WriteError

\* C7 (as claimed): every error of an invocation (setup, the four steps, the
\* removal of the working directory) is returned to the caller as a failure;
\* stated for the calls that do not panic.
C7_AllErrorsSurfaced ==
    \A i \in Invs :
        (pc[i] \in Ended /\ options[i].ptr # "nil"
            /\ (StepError(i) \/ rmerr[i])) => ReturnedFailure(i)

\* C7 (amended): every error of the setup and of the four steps is returned
\* to the caller as a failure; an error of the removal of the working
\* directory is dropped, and the invocation returns what it would have
\* returned had the removal succeeded.
C7_StepErrorsSurfaced ==
    \A i \in Invs :
        pc[i] \in Ended =>
            /\ StepError(i) <=> ReturnedFailure(i)
            /\ (~StepError(i) /\ options[i].ptr # "nil") => ReturnedSuccess(i)

C7_Witness ==
    \E i \in Invs :
        /\ pc[i] = "Done"
        /\ rmerr[i]
        /\ ret[i] = NilError
        /\ tmp[i] \in DOMAIN fs

\* The final element of a path, stated without filepath.Base: what lies
\* between the last separator that has a name after it and the trailing
\* separators.
IsLastElement(b, path) ==
    IF path = <<>> THEN b = <<".">>
    ELSE IF \A k \in 1..Len(path) : path[k] = Separator THEN b = <<Separator>>
    ELSE /\ b # <<>>
         /\ \A k \in 1..Len(b) : b[k] # Separator
         /\ \E lo \in 1..Len(path) :
               /\ lo + Len(b) - 1 <= Len(path)
               /\ SubSeq(path, lo, lo + Len(b) - 1) = b
               /\ lo > 1 => path[lo - 1] = Separator
               /\ \A k \in (lo + Len(b))..Len(path) : path[k] = Separator

\* stem is b without its last extension: b is stem followed by nothing when
\* b has no dot, else by its last dot and the dot-free rest.
IsStemOf(stem, b) ==
    /\ IsPrefix(stem, b)
    /\ LET ext == From(b, Len(stem) + 1)
       IN  IF \A k \in 1..Len(b) : b[k] # "." THEN ext = <<>>
           ELSE /\ ext # <<>>
                /\ ext[1] = "."
                /\ \A k \in 2..Len(ext) : ext[k] # "."

\* The strings a last element can be: a piece of the path, "." or "/".
Pieces(path) ==
    {SubSeq(path, lo, hi) : lo \in 1..Len(path), hi \in 1..Len(path)}
        \cup {<<".">>, <<Separator>>}

\* C8: the archive's name is the bundle path's last element with its last
\* extension replaced by .zip (appended when there is none), the archive lies
\* directly in the working directory, and a separator added at the end of a
\* bundle path does not change the name.
C8_ZipName ==
    \A i \in Invs :
        zipname[i] # NoPath =>
            LET z == zipname[i]
                stem == SubSeq(z, 1, Len(z) - 2)
                name == From(zippath[i], Len(tmp[i]) + 2)
            IN  /\ Len(z) >= 2
                /\ From(z, Len(z) - 1) = <<".", "zip">>
                /\ \E b \in Pieces(appPath[i]) :
                       /\ IsLastElement(b, appPath[i])
                       /\ IsStemOf(stem, b)
                /\ IsPrefix(tmp[i] \o <<Separator>>, zippath[i])
                /\ name # <<>>
                /\ \A k \in 1..Len(name) : name[k] # Separator
                /\ name = IF z[1] = Separator THEN Tail(z) ELSE z
                /\ appPath[i] # <<>> =>
                       ZipName(appPath[i] \o <<Separator>>) = z

C8_Witness ==
    \E i \in Invs :
        /\ appPath[i] = <<"a", ".", ".", "a">>
        /\ zipname[i] = <<"a", ".", ".", "zip">>
        /\ zippath[i] = tmp[i] \o <<"/", "a", ".", ".", "zip">>

\* Invocation i holds a working directory: it created one and has not ended.
Holds(i) == pc[i] \notin ({"idle"} \cup Ended) /\ Created(i)

\* The variables of invocation i.
Locals(i) ==
    <<pc[i], appPath[i], options[i], tmp[i], entitlements[i], zipname[i],
      zippath[i], buf[i], ret[i], deferred[i], calls[i], sink[i], ops[i]>>

\* C9: concurrent invocations hold different working directories; what lies
\* in the directory an invocation holds was written by it, its entitlements
\* file and its archive stay as it wrote them until it ends, its commands
\* are given no path in another directory, and a step of one invocation
\* changes no variable of another.
C9_Isolation ==
    /\ [](\A i \in Invs :
            /\ \A j \in Invs \ {i} :
                   (Holds(i) /\ Holds(j)) => tmp[i] # tmp[j]
            /\ Holds(i) =>
                   \A p \in DOMAIN fs : Under(tmp[i], p) => fs[p].by = i
            /\ pc[i] \in {"EntitlementsWritten", "codesign", "Signed", "ditto",
                          "Archived", "notarytool", "Submitted", "stapler",
                          "Stapled"} =>
                   /\ IsFile(fs, entitlements[i])
                   /\ fs[entitlements[i]].data = entitlementsPlist
            /\ pc[i] \in {"Archived", "notarytool", "Submitted", "stapler",
                          "Stapled"} =>
                   /\ IsFile(fs, zippath[i])
                   /\ fs[zippath[i]].data = <<"zip">> \o appPath[i]
            /\ \A k \in 1..Len(calls[i]) :
                   \A a \in 1..Len(calls[i][k].args) :
                       IsPrefix(TempDir, calls[i][k].args[a]) =>
                           Under(tmp[i], calls[i][k].args[a]))
    /\ [][\A i \in Invs :
             /\ \A j \in Invs \ {i} :
                    Locals(i)' = Locals(i) \/ Locals(j)' = Locals(j)
             /\ (Locals(i)' = Locals(i) /\ Holds(i)) =>
                      \A p \in DOMAIN fs :
                          Under(tmp[i], p) => (p \in DOMAIN fs' /\ fs'[p] = fs[p])]_vars

C9_Witness ==
    \E i \in Invs : \E j \in Invs \ {i} :
        /\ pc[i] = "notarytool" /\ pc[j] = "notarytool"
        /\ tmp[i] # tmp[j]
        /\ zippath[i] # zippath[j]
        /\ IsFile(fs, zippath[i]) /\ IsFile(fs, zippath[j])
        /\ appPath[i] = appPath[j]

\* Chunk n of the standard output of command c, and whether e is one.
ChunkOf(c, n) == Tool(c) \o ": progress " \o ToString(n)
IsChunkOf(c, e) == \E n \in 1..NumChunks : e = ChunkOf(c, n)

\* What the sink of a call may hold, if a writer was given: chunks of the
\* standard output of its notarytool and stapler commands and nothing else,
\* the chunks of one command in the order it printed them, from the first
\* on, and after those of the command before it; of a command whose copy
\* failed less than all it could print, and that command is the last.
SinkHolds(o, cs, sk) ==
    LET xs == SelectSeq(cs, LAMBDA c : c.name = "xcrun")
        started(c) == c.exit >= 0 \/ c.err = "unset"
        at(j) == CHOOSE kn \in (1..Len(xs)) \X (1..NumChunks) :
                     sk[j] = ChunkOf(xs[kn[1]], kn[2])
    IN  IF o.ProgressOutput = "nil" THEN sk = <<>>
        ELSE /\ \A j \in 1..Len(sk) :
                    /\ \E k \in 1..Len(xs) :
                           started(xs[k]) /\ IsChunkOf(xs[k], sk[j])
                    /\ IF j > 1 /\ at(j)[1] = at(j - 1)[1]
                       THEN at(j)[2] = at(j - 1)[2] + 1
                       ELSE /\ at(j)[2] = 1
                            /\ j > 1 => at(j)[1] > at(j - 1)[1]
             /\ \A k \in 1..Len(xs) :
                    CopyFailed(xs[k]) =>
                        /\ k = Len(xs)
                        /\ \A j \in 1..Len(sk) : sk[j] # ChunkOf(xs[k], NumChunks)

\* What the environment decided in a call, in order: how each setup call
\* went, then the exit status of each command (-1: never started).
Outcomes(r) ==
    [k \in 1..Len(r.ops) |-> IF r.ops[k].ok THEN "ok" ELSE r.ops[k].err]

Exits(r) == [k \in 1..Len(r.calls) |-> r.calls[k].exit]

\* The same with what cmd.Run returned for each command.
RunResults(r) ==
    [k \in 1..Len(r.calls) |-> <<r.calls[k].exit, r.calls[k].err>>]

\* Every write to the progress sink made in the call succeeded.
SinkAccepts(r) == \A k \in 1..Len(r.calls) : ~CopyFailed(r.calls[k])

Agree(s, t) ==
    \A k \in 1..(IF Len(s) < Len(t) THEN Len(s) ELSE Len(t)) : s[k] = t[k]

SetupOutcomes(r) ==
    SubSeq(Outcomes(r), 1,
           Cardinality({k \in 1..Len(r.ops) : r.ops[k].op # "RemoveAll"}))

\* The name os.MkdirTemp drew for the working directory of a call, created
\* or not (NoPath before it is called).
TmpOf(r) == IF r.ops # <<>> THEN r.ops[1].path ELSE NoPath

\* An argument with the working directory's random name taken out.
Relative(dir, arg) ==
    IF dir # NoPath /\ Under(dir, arg)
    THEN <<"$TMP">> \o From(arg, Len(dir) + 1)
    ELSE arg

\* The command lines of a call, up to the working directory's name.
Lines(r) ==
    [k \in 1..Len(r.calls) |->
        <<r.calls[k].name,
          [a \in 1..Len(r.calls[k].args) |->
              Relative(TmpOf(r), r.calls[k].args[a])]>>]

\* The message of the error a call returned, without what differs from run
\* to run for the same outcomes: the tool's standard-error text, and the
\* random name of the working directory in the path of an os error.
MsgShape(r) ==
    LET m == r.ret.msg
        d == TmpOf(r)
    IN  IF NamesStep(r.ret) THEN FirstN(m, 5)
        ELSE IF d # NoPath /\ Len(m) >= Len(d) + 2
                  /\ SubSeq(m, 3, Len(d) + 2) = d
             THEN <<m[1], m[2], "$TMP">> \o From(m, Len(d) + 3)
             ELSE m

SameButSink(o1, o2) == [o1 EXCEPT !.ProgressOutput = "nil"]
                         = [o2 EXCEPT !.ProgressOutput = "nil"]

\* Two ended calls on the same bundle that differ only in the sink.
SinkPair(a, b) ==
    /\ a.pc \in Ended /\ b.pc \in Ended
    /\ a.appPath = b.appPath
    /\ SameButSink(a.options, b.options)

\* The two calls took the same steps and returned the same result.
SameRun(a, b) ==
    /\ a.pc = b.pc
    /\ Lines(a) = Lines(b)
    /\ Exits(a) = Exits(b)
    /\ a.ret.isErr = b.ret.isErr
    /\ a.ret.wraps = b.ret.wraps
    /\ MsgShape(a) = MsgShape(b)

\* C10 (as claimed): the sink receives the standard output of the submission
\* and stapling tools and nothing else (nothing from codesign or ditto, no
\* standard error), nothing at all is kept when no sink is set, and two calls
\* that differ only in the sink and meet the same setup outcomes and tool
\* exits run the same commands and return the same result.
C10_SameWithOrWithoutSink ==
    \A i \in Invs :
        /\ SinkHolds(options[i], calls[i], sink[i])
        /\ SinkHolds(prev[i].options, prev[i].calls, prev[i].sink)
        /\ LET a == prev[i]
               b == Summary(i)
           IN  ( /\ SinkPair(a, b)
                 /\ Agree(SetupOutcomes(a), SetupOutcomes(b))
                 /\ Agree(Exits(a), Exits(b)) )
               => SameRun(a, b)

\* C10 (amended): the sink receives the standard output of the submission
\* and stapling tools and nothing else (nothing from codesign or ditto, no
\* standard error), nothing at all is kept when no sink is set, and two calls
\* that differ only in the sink and meet the same setup outcomes and tool
\* exits run the same commands and return the same result provided every
\* write to the sink succeeds; when a write to the sink fails, the
\* submission or stapling step fails with that error although its tool
\* exited with status zero, which cannot happen with no sink set.
C10_ProgressSink ==
    \A i \in Invs :
        /\ SinkHolds(options[i], calls[i], sink[i])
        /\ SinkHolds(prev[i].options, prev[i].calls, prev[i].sink)
        /\ \A k \in 1..Len(calls[i]) :
               CopyFailed(calls[i][k]) =>
                   /\ Tool(calls[i][k]) \in {"notarytool", "stapler"}
                   /\ k = Len(calls[i])
                   /\ pc[i] \in {"Failing", "Failed"}
                   /\ ret[i].isErr /\ ret[i].wraps = WriteError
        /\ options[i].ProgressOutput = "nil" => SinkAccepts(Summary(i))
        /\ LET a == prev[i]
               b == Summary(i)
           IN  ( /\ SinkPair(a, b)
                 /\ SinkAccepts(a) /\ SinkAccepts(b)
                 /\ Agree(SetupOutcomes(a), SetupOutcomes(b))
                 /\ Agree(Exits(a), Exits(b)) )
               => SameRun(a, b)

C10_Witness ==
    \E i \in Invs :
        /\ prev[i].pc = "Done" /\ pc[i] = "Done"
        /\ prev[i].options.ProgressOutput = "writer"
        /\ options[i].ProgressOutput = "nil"
        /\ SameButSink(prev[i].options, options[i])
        /\ prev[i].sink = <<"notarytool: progress 1", "notarytool: progress 2",
                           "stapler: progress 1", "stapler: progress 2">>
        /\ sink[i] = <<>>

\* The account email, the team identifier and the app-specific password of
\* an options value.
Secrets(o) ==
    IF o.ptr = "nil" THEN {} ELSE {o.Email, o.TeamID, o.AppPassword}

\* A sequence of strings that holds one of the strings of S.
Mentions(seq, S) == \E k \in 1..Len(seq) : seq[k] \in S

SameButSecrets(o1, o2) ==
    /\ o1.ptr = "struct" /\ o2.ptr = "struct"
    /\ [o1 EXCEPT !.Email = "", !.TeamID = "", !.AppPassword = ""]
          = [o2 EXCEPT !.Email = "", !.TeamID = "", !.AppPassword = ""]

\* The command lines of a call other than the submission's.
OtherLines(r) ==
    SelectSeq(Lines(r), LAMBDA l : l[2][1] # <<"notarytool">>)

\* The submission's command lines, the three values blanked.
SubmitLines(r) ==
    LET sub == SelectSeq(Lines(r), LAMBDA l : l[2][1] = <<"notarytool">>)
    IN  [k \in 1..Len(sub) |->
            <<sub[k][1],
              [a \in 1..Len(sub[k][2]) |->
                  IF Mentions(sub[k][2][a], Secrets(r.options))
                  THEN <<"***">> ELSE sub[k][2][a]]>>]

\* The os calls of a call, paths up to the working directory's name.
RelOps(r) ==
    [k \in 1..Len(r.ops) |->
        [r.ops[k] EXCEPT !.path = Relative(TmpOf(r), @)]]

\* C11: the email, team identifier and password are arguments of the
\* notarytool command and of no other command; Notarize writes none of them
\* to the sink, to a file or a path of the working directory, or into the
\* text it puts in a returned error; and two calls that differ only in these
\* three values and meet the same outcomes run the same codesign, ditto and
\* stapler commands, the same notarytool command but for the three values,
\* make the same os calls with the same data, put in the sink nothing but
\* what the same tools printed, and return the same kind of result.
C11_SecretsOnlyToSubmission ==
    \A i \in Invs :
        LET S == Secrets(options[i])
        IN  /\ \A k \in 1..Len(calls[i]) :
                   LET c == calls[i][k]
                   IN  IF Tool(c) = "notarytool"
                       THEN /\ ArgAfter(c, "--apple-id") = <<options[i].Email>>
                            /\ ArgAfter(c, "--password") = <<options[i].AppPassword>>
                            /\ ArgAfter(c, "--team-id") = <<options[i].TeamID>>
                       ELSE \A a \in 1..Len(c.args) : ~Mentions(c.args[a], S)
            /\ ~Mentions(sink[i], S)
            /\ \A k \in 1..Len(ops[i]) :
                   ~Mentions(ops[i][k].data, S) /\ ~Mentions(ops[i][k].path, S)
            /\ \A p \in DOMAIN fs :
                   fs[p].by = i => (~Mentions(fs[p].data, S) /\ ~Mentions(p, S))
            /\ ret[i].isErr =>
                   IF calls[i] = <<>>
                   THEN ~Mentions(ret[i].msg, S)
                   ELSE /\ ~Mentions(FirstN(ret[i].msg, 5), S)
                        /\ From(ret[i].msg, 6) = emitted[i]
            /\ LET a == prev[i]
                   b == Summary(i)
               IN  ( /\ a.pc \in Ended /\ b.pc \in Ended
                     /\ a.appPath = b.appPath
                     /\ SameButSecrets(a.options, b.options)
                     /\ Agree(Outcomes(a), Outcomes(b))
                     /\ Agree(RunResults(a), RunResults(b)) )
                   => /\ a.pc = b.pc
                      /\ OtherLines(a) = OtherLines(b)
                      /\ SubmitLines(a) = SubmitLines(b)
                      /\ RelOps(a) = RelOps(b)
                      /\ SinkHolds(a.options, b.calls, a.sink)
                      /\ SinkHolds(b.options, a.calls, b.sink)
                      /\ a.ret.isErr = b.ret.isErr
                      /\ a.ret.wraps = b.ret.wraps
                      /\ MsgShape(a) = MsgShape(b)

C11_Witness ==
    \E i \in Invs :
        /\ prev[i].pc = "Done" /\ pc[i] = "Done"
        /\ prev[i].options = Options(CredA, "writer")
        /\ options[i] = Options(CredB, "writer")
        /\ Len(prev[i].calls) = 4 /\ Len(calls[i]) = 4
        /\ ArgAfter(prev[i].calls[3], "--password") = <<"pw-a">>
        /\ ArgAfter(calls[i][3], "--password") = <<"pw-b">>
        /\ prev[i].calls[1] = [calls[i][1] EXCEPT !.args[11] = prev[i].calls[1].args[11]]

\* The bundle a command is given: the target of codesign and of stapler, the
\* source of ditto.
BundleArg(c) ==
    CASE Tool(c) = "codesign" -> LastArg(c)
      [] Tool(c) = "ditto" -> c.args[4]
      [] Tool(c) = "stapler" -> c.args[3]
      [] OTHER -> NoPath

\* The working directories invocation i has created.
DirsCreated(i) == {k \in OpsOf(i, "MkdirTemp") : ops[i][k].ok}

\* The bundle path is passed on as it was given, Notarize makes no os call
\* on the bundle, and at most one archive is written.
BundleUntouched(i) ==
    /\ \A k \in 1..Len(calls[i]) :
           Tool(calls[i][k]) # "notarytool" => BundleArg(calls[i][k]) = appPath[i]
    /\ \A k \in 1..Len(ops[i]) :
           ops[i][k].path # NoPath =>
               /\ Under(TempDir, ops[i][k].path)
               /\ ops[i][k].path # appPath[i]
    /\ Cardinality({k \in 1..Len(calls[i]) : Tool(calls[i][k]) = "ditto"}) <= 1
    /\ \A p \in DOMAIN fs :
           (fs[p].by = i /\ fs[p].kind = "file") =>
               p \in {entitlements[i], zippath[i]}
    /\ \A p \in DOMAIN fs :
           (fs[p].by = i /\ fs[p].kind = "dir") => p = tmp[i]

\* The bundle changes only in a step of a running codesign or stapler (as it
\* works or as it exits), never in a step of Notarize, and only at the path
\* that command was given.
OnlyToolsChangeBundle ==
    bundle' # bundle =>
        \E i \in Invs :
            /\ pc[i] \in {"codesign", "stapler"}
            /\ cmd(i).exit = -1 /\ cmd(i).err = "unset"
            /\ pc'[i] = pc[i] /\ ret'[i] = ret[i]
            /\ ops'[i] = ops[i]
            /\ \A p \in DOMAIN bundle' :
                   BundleAt(bundle', p) # BundleAt(bundle, p) => p = appPath[i]

\* C12 (as claimed): in every invocation the bundle path given by the caller
\* is passed unchanged to codesign, ditto and stapler, Notarize itself never
\* changes the bundle, and exactly one working directory and at most one
\* archive are created.
C12_ExactlyOneDirectory ==
    /\ [](\A i \in Invs :
            /\ BundleUntouched(i)
            /\ Cardinality(DirsCreated(i)) <= 1
            /\ pc[i] \in Ended => Cardinality(DirsCreated(i)) = 1)
    /\ [][OnlyToolsChangeBundle]_vars

\* C12 (amended): in every invocation the bundle path given by the caller is
\* passed unchanged to codesign, ditto and stapler, Notarize itself never
\* changes the bundle, and at most one working directory and at most one
\* archive are created: exactly one working directory when os.MkdirTemp
\* succeeds, none when it fails (and then no command is run).
C12_BundlePathUnchanged ==
    /\ [](\A i \in Invs :
            /\ BundleUntouched(i)
            /\ Cardinality(DirsCreated(i)) <= 1
            /\ pc[i] \notin {"idle", "Start"} =>
                   IF \E k \in OpsOf(i, "MkdirTemp") : ~ops[i][k].ok
                   THEN /\ Cardinality(DirsCreated(i)) = 0
                        /\ calls[i] = <<>>
                        /\ pc[i] \in {"Failing", "Failed"}
                   ELSE Cardinality(DirsCreated(i)) = 1)
    /\ [][OnlyToolsChangeBundle]_vars

C12_Witness ==
    \E i \in Invs :
        /\ pc[i] = "Done"
        /\ appPath[i] = <<"a", "/", "/", "a">>
        /\ Len(calls[i]) = 4
        /\ LastArg(calls[i][1]) = <<"a", "/", "/", "a">>
        /\ calls[i][2].args[4] = <<"a", "/", "/", "a">>
        /\ calls[i][4].args[3] = <<"a", "/", "/", "a">>
        /\ BundleAt(bundle, appPath[i]) = "stapled"
        /\ Cardinality(DirsCreated(i)) = 1

\* Every os.WriteFile call of invocation i writes the fixed document to
\* entitlements.plist directly in the working directory created before it,
\* there is at most one such call, a command is started only after that
\* call succeeded, codesign is given that very file, and the file keeps the
\* document for as long as the function body runs.
EntitlementsFixed(i) ==
    /\ Cardinality(OpsOf(i, "WriteFile")) <= 1
    /\ \A k \in OpsOf(i, "WriteFile") :
           /\ ops[i][k].data = entitlementsPlist
           /\ Cardinality(DirsCreated(i)) = 1
           /\ \A d \in DirsCreated(i) :
                  /\ d < k
                  /\ ops[i][k].path
                       = ops[i][d].path \o <<Separator, "entitlements", ".", "plist">>
           /\ Parent(ops[i][k].path) = tmp[i]
           /\ ops[i][k].path = entitlements[i]
    /\ calls[i] # <<>> =>
           /\ Written(i)
           /\ Tool(calls[i][1]) = "codesign"
           /\ ArgAfter(calls[i][1], "--entitlements") = entitlements[i]
    /\ \A k \in 2..Len(calls[i]) :
           \A a \in 1..Len(calls[i][k].args) :
               calls[i][k].args[a] # entitlements[i]
    /\ (Written(i) /\ pc[i] \notin Ended) =>
           /\ IsFile(fs, entitlements[i])
           /\ fs[entitlements[i]].data = entitlementsPlist

\* C13 (as claimed): in every invocation the entitlements descriptor is
\* written exactly once, into the working directory, before codesign is
\* invoked; its content is the same fixed text whatever the inputs; codesign
\* is given that file, and Notarize never writes it again.
C13_WrittenInEveryInvocation ==
    \A i \in Invs :
        /\ EntitlementsFixed(i)
        /\ pc[i] \in Ended => Cardinality(OpsOf(i, "WriteFile")) = 1

\* C13 (amended): in every invocation whose working directory was created
\* the entitlements descriptor is written exactly once, into the working
\* directory, before codesign is invoked, and never in an invocation whose
\* os.MkdirTemp failed; its content is the same fixed text whatever the
\* inputs; codesign is given that file, and Notarize never writes it again.
C13_EntitlementsOnce ==
    \A i \in Invs :
        /\ EntitlementsFixed(i)
        /\ pc[i] \notin {"idle", "Start", "TmpCreated"} =>
               Cardinality(OpsOf(i, "WriteFile")) = Cardinality(DirsCreated(i))

C13_Witness ==
    \E i \in Invs :
        /\ pc[i] = "Done"
        /\ options[i] = Options(CredB, "nil")
        /\ appPath[i] # <<"Foo", ".", "app">>
        /\ Cardinality(OpsOf(i, "WriteFile")) = 1
        /\ Written(i)
        /\ ops[i][2].data = entitlementsPlist
        /\ ArgAfter(calls[i][1], "--entitlements") = ops[i][2].path

\* C14: the path notarytool is given is the path the ditto command before it
\* was told to write; it is a file name directly inside the invocation's
\* working directory; the working directory exists from its creation until
\* the function body is left, so during every command, and os.RemoveAll runs
\* only when cmd.Run has returned for every command, its process, if one was
\* started, having exited; the archive is there while
\* notarytool runs; and no argument of stapler lies in the working directory.
C14_ArchiveHandOver ==
    /\ [](\A i \in Invs :
            /\ \A k \in 1..Len(calls[i]) :
                   LET c == calls[i][k]
                   IN  /\ Tool(c) = "notarytool" =>
                              /\ k > 1
                              /\ Tool(calls[i][k - 1]) = "ditto"
                              /\ c.args[3] = LastArg(calls[i][k - 1])
                              /\ c.args[3] = zippath[i]
                              /\ c.args[3] = ZipPath(tmp[i], appPath[i])
                              /\ Parent(c.args[3]) = tmp[i]
                              /\ Under(tmp[i], c.args[3]) /\ c.args[3] # tmp[i]
                       /\ Tool(c) = "stapler" =>
                              \A a \in 1..Len(c.args) :
                                  /\ c.args[a] # zippath[i]
                                  /\ ~Under(tmp[i], c.args[a])
            /\ Holds(i) => IsDir(fs, tmp[i])
            /\ pc[i] = "notarytool" => IsFile(fs, zippath[i])
            /\ OpsOf(i, "RemoveAll") # {} =>
                   /\ pc[i] \in Ended
                   /\ \A k \in 1..Len(calls[i]) : RunReturned(calls[i][k]))
    /\ [][\A i \in Invs :
             (IsDir(fs, tmp[i]) /\ ~IsDir(fs', tmp[i])) =>
                 /\ pc[i] \in Returning
                 /\ pc'[i] \in Ended
                 /\ \A k \in 1..Len(calls[i]) : RunReturned(calls[i][k])]_vars

C14_Witness ==
    \E i \in Invs :
        /\ pc[i] = "stapler"
        /\ appPath[i] = <<"/", "a", ".", "a">>
        /\ LastArg(calls[i][2]) = tmp[i] \o <<"/", "a", ".", "zip">>
        /\ calls[i][3].args[3] = tmp[i] \o <<"/", "a", ".", "zip">>
        /\ calls[i][3].exit = 0
        /\ IsFile(fs, calls[i][3].args[3])
        /\ IsDir(fs, tmp[i])

\* Invocation i signed the bundle and a later step of it failed.
FailedAfterSigning(i) ==
    /\ calls[i] # <<>>
    /\ calls[i][1].exit = 0
    /\ \E k \in 2..Len(calls[i]) : RunFailed(calls[i][k])

\* C15: when ditto, notarytool or stapler fails after codesign succeeded, the
\* failed command is the last one Notarize runs, the failure is returned,
\* the bundle stays signed (and carries the ticket if the stapler attached
\* it before its step failed), the only os call made after the failure is the
\* removal of the working directory, which is gone at the end if that call
\* succeeded; and no step ever takes a bundle back to the state it was in
\* before it was signed.
C15_NoRollback ==
    /\ [](\A i \in Invs :
            FailedAfterSigning(i) =>
                /\ RunFailed(cmd(i))
                /\ \A k \in 1..(Len(calls[i]) - 1) : calls[i][k].exit = 0
                /\ pc[i] \in {"Failing", "Failed"}
                /\ ret[i].isErr
                /\ BundleAt(bundle, appPath[i]) \in {"signed", "stapled"}
                /\ BundleAt(bundle, appPath[i]) = "stapled" <=>
                       (Tool(cmd(i)) = "stapler" /\ cmd(i).exit = 0)
                /\ [k \in 1..Len(ops[i]) |-> ops[i][k].op]
                     = IF pc[i] = "Failed"
                       THEN <<"MkdirTemp", "WriteFile", "RemoveAll">>
                       ELSE <<"MkdirTemp", "WriteFile">>
                /\ pc[i] = "Failed" =>
                       /\ ops[i][3].path = tmp[i]
                       /\ Removed(i) => \A p \in DOMAIN fs : ~Under(tmp[i], p))
    /\ [][\A p \in DOMAIN bundle :
             BundleAt(bundle, p) # "built" => BundleAt(bundle', p) # "built"]_vars

C15_Witness ==
    \E i \in Invs :
        /\ pc[i] = "Failed"
        /\ Len(calls[i]) = 3
        /\ Tool(cmd(i)) = "notarytool"
        /\ cmd(i).exit = 1
        /\ ret[i].isErr
        /\ BundleAt(bundle, appPath[i]) = "signed"
        /\ tmp[i] \notin DOMAIN fs

\* The world a single successful call on a fresh bundle at path p leaves: the
\* temporary directory as it was, the bundle signed and stapled.
FreshSuccess(p) ==
    <<[q \in {TempDir} |-> DirEntry(0)], SetBundle(<<>>, p, "stapled")>>

\* The call of invocation i follows a failed call with the same arguments.
RerunAfterFailure(i) ==
    /\ prev[i].pc = "Failed"
    /\ pc[i] # "idle"
    /\ prev[i].appPath = appPath[i]
    /\ prev[i].options = options[i]

\* C16 (as claimed): a first call in which the four tools succeed leaves
\* the bundle signed and stapled and nothing of its working directory; a
\* call that follows a failed call with the same arguments finds a free
\* directory name, each of its tools is able to exit with status zero
\* whatever the failed call left (a signature, a partial signature), and if
\* the four tools succeed it returns success and leaves exactly the world
\* the single successful call leaves.
C16_RerunSucceedsIfToolsDo ==
    \A i \in Invs :
        /\ (runs[i] = 1 /\ pc[i] \in Ended /\ AllZero(i)) =>
               <<fs, bundle>> = FreshSuccess(appPath[i])
        /\ RerunAfterFailure(i) =>
               /\ pc[i] = "Start" => \E d \in TmpNames : d \notin DOMAIN fs
               /\ pc[i] \in Running =>
                      /\ CanSucceed(cmd(i), fs)
                      /\ Overwrites(cmd(i), bundle)
               /\ (pc[i] \in Ended /\ AllZero(i)) =>
                      /\ ReturnedSuccess(i)
                      /\ <<fs, bundle>> = FreshSuccess(appPath[i])

\* No os.RemoveAll of the call failed.
CleanedUp(r) == \A k \in 1..Len(r.ops) : r.ops[k].ok \/ r.ops[k].op # "RemoveAll"

\* C16 (amended): a first call in which the four tools succeed leaves the
\* bundle signed and stapled and, if its os.RemoveAll succeeds, nothing of
\* its working directory; a call that follows a failed call with the same
\* arguments finds a free directory name, each of its tools is able to exit
\* with status zero whatever the failed call left (a signature, a partial
\* signature, a working directory that could not be removed), and if the
\* four tools succeed it leaves the bundle signed and stapled, nothing of
\* its own working directory if its os.RemoveAll succeeds, and exactly the
\* world the single successful call leaves if the os.RemoveAll of the failed
\* call had succeeded too; it returns success provided every write to the
\* progress sink succeeded, and if one failed, it returns that failure.
C16_RerunSafe ==
    \A i \in Invs :
        /\ (runs[i] = 1 /\ pc[i] \in Ended /\ AllZero(i)) =>
               /\ bundle = FreshSuccess(appPath[i])[2]
               /\ Removed(i) <=> (fs = FreshSuccess(appPath[i])[1])
        /\ RerunAfterFailure(i) =>
               /\ pc[i] = "Start" => \E d \in TmpNames : d \notin DOMAIN fs
               /\ (pc[i] \in Running /\ cmd(i).exit = -1) =>
                      /\ CanSucceed(cmd(i), fs)
                      /\ Overwrites(cmd(i), bundle)
               /\ (pc[i] \in Ended /\ AllZero(i)) =>
                      /\ bundle = FreshSuccess(appPath[i])[2]
                      /\ Removed(i) => \A p \in DOMAIN fs : ~Under(tmp[i], p)
                      /\ (runs[i] = 2 /\ Removed(i) /\ CleanedUp(prev[i])) =>
                             fs = FreshSuccess(appPath[i])[1]
                      /\ IF SinkAccepts(Summary(i))
                         THEN ReturnedSuccess(i)
                         ELSE ReturnedFailure(i) /\ ret[i].wraps = WriteError

C16_Witness ==
    \E i \in Invs :
        /\ RerunAfterFailure(i)
        /\ Len(prev[i].calls) = 3
        /\ prev[i].calls[1].exit = 0
        /\ prev[i].calls[3].exit = 1
        /\ pc[i] = "Done"
        /\ AllZero(i)
        /\ ret[i] = NilError
        /\ BundleAt(bundle, appPath[i]) = "stapled"
        /\ DOMAIN fs = {TempDir}

\* While Notarize is in cmd.Run (the tool running, or its output still
\* being copied) the invocation has returned nothing, its working directory
\* is there, and Notarize takes no step of its own.
BlocksOnTool(i) ==
    pc[i] \in Running =>
        /\ cmd(i).err = "unset"
        /\ ret[i] = NotReturned
        /\ IsDir(fs, tmp[i])
        /\ OpsOf(i, "RemoveAll") = {}
        /\ ~ENABLED OwnSteps(i)
        /\ cmd(i).exit = -1 => ~ENABLED RunReturns(i)

\* Notarize goes on only when the tool it waits for has exited.
WaitsForExit(i) ==
    (pc[i] \in Running /\ (pc'[i] # pc[i] \/ ret'[i] # ret[i])) =>
        /\ cmd(i).exit >= 0
        /\ cmd(i)'.exit = cmd(i).exit
        /\ RunReturned(cmd(i)')
        /\ Len(calls'[i]) = Len(calls[i])

\* C17 (as claimed): if every started tool exits, every invocation ends in
\* Done or Failed with its working directory removed; and while a tool has
\* not exited the invocation does not return and its working directory
\* remains.
C17_EndsDoneOrFailed ==
    /\ \A i \in Invs :
           (pc[i] = "Start") ~>
               (pc[i] \in {"Done", "Failed"} /\ ~IsDir(fs, tmp[i]))
    /\ [](\A i \in Invs : BlocksOnTool(i))
    /\ [][\A i \in Invs : WaitsForExit(i)]_vars

\* C17 (amended): if every started tool exits and the copy of its output
\* ends (every Write of the progress sink returns), every invocation ends in
\* Done or Failed, or, when options is nil and the setup succeeded, in the
\* panic of notarize.go:67, with its working directory removed unless
\* os.RemoveAll failed; and while a tool has not exited the invocation does
\* not return and its working directory remains.
C17_Terminates ==
    /\ WF_vars(RunReturns(1)) =>
           \A i \in Invs :
               (pc[i] = "Start") ~>
                   /\ pc[i] \in Ended
                   /\ IsDir(fs, tmp[i]) <=> RemoveFailed(i)
                   /\ pc[i] = "Panicked" <=> (options[i].ptr = "nil" /\ Written(i))
    /\ [](\A i \in Invs : BlocksOnTool(i))
    /\ [][\A i \in Invs : WaitsForExit(i)]_vars

C17_Witness ==
    \E i \in Invs :
        /\ pc[i] = "Failed"
        /\ Len(calls[i]) = 3
        /\ Tool(cmd(i)) = "notarytool"
        /\ cmd(i).exit > 0
        /\ Created(i)
        /\ ~IsDir(fs, tmp[i])

\* A call with nil options starts no command, leaves the bundle as it was,
\* and nothing but nil options makes Notarize panic; at the moment of the
\* panic the working directory and the entitlements file are there, nothing
\* has been returned and the removal is pending.
NilStartsNothing(i) ==
    /\ (options[i].ptr = "nil" /\ pc[i] # "idle") =>
           /\ calls[i] = <<>>
           /\ BundleAt(bundle, appPath[i]) = "built"
    /\ pc[i] \in {"Panicking", "Panicked"} => options[i].ptr = "nil"
    /\ pc[i] = "Panicking" =>
           /\ IsDir(fs, tmp[i])
           /\ IsFile(fs, entitlements[i])
           /\ fs[entitlements[i]].data = entitlementsPlist
           /\ ret[i] = NotReturned
           /\ deferred[i]

\* The call ended in the panic: both setup calls had succeeded, nothing was
\* returned, and the working directory was removed on the way out.
FaultedAndCleaned(i) ==
    /\ NilFault(i)
    /\ [k \in 1..Len(ops[i]) |-> <<ops[i][k].op, ops[i][k].ok>>]
         = << <<"MkdirTemp", TRUE>>, <<"WriteFile", TRUE>>, <<"RemoveAll", TRUE>> >>
    /\ ops[i][3].path = tmp[i]
    /\ \A p \in DOMAIN fs : ~Under(tmp[i], p)

\* The same, the removal of the working directory having been attempted:
\* the directory is gone if os.RemoveAll succeeded and there if it failed.
FaultedAndRemoveRan(i) ==
    /\ NilFault(i)
    /\ [k \in 1..Len(ops[i]) |-> ops[i][k].op]
         = <<"MkdirTemp", "WriteFile", "RemoveAll">>
    /\ ops[i][1].ok /\ ops[i][2].ok
    /\ ops[i][3].path = tmp[i]
    /\ IF ops[i][3].ok THEN \A p \in DOMAIN fs : ~Under(tmp[i], p)
       ELSE IsDir(fs, tmp[i])

\* C18 (as claimed): a call with nil options panics while the codesign
\* command is built, after the working directory was created and the
\* entitlements file written and before any command is started; nothing is
\* returned, and the working directory is removed.
C18_NilAlwaysFaults ==
    \A i \in Invs :
        /\ NilStartsNothing(i)
        /\ (options[i].ptr = "nil" /\ pc[i] \in Ended) => FaultedAndCleaned(i)

\* C18 (amended): a call with nil options whose setup succeeds panics while
\* the codesign command is built, after the working directory was created
\* and the entitlements file written and before any command is started;
\* nothing is returned, and the removal of the working directory is still
\* run: the directory is removed unless os.RemoveAll fails.  If os.MkdirTemp
\* or os.WriteFile fails, the call returns that error before it reaches the
\* nil pointer, and does not panic.
C18_NilOptionsFault ==
    \A i \in Invs :
        /\ NilStartsNothing(i)
        /\ (options[i].ptr = "nil" /\ pc[i] \in Ended) =>
               IF SetupFailed(i)
               THEN /\ pc[i] = "Failed"
                    /\ ReturnedFailure(i)
                    /\ IsSetupFailure(i, ret[i])
               ELSE FaultedAndRemoveRan(i)

C18_Witness ==
    \E i \in Invs :
        /\ options[i] = NilOptions
        /\ pc[i] = "Panicked"
        /\ Len(ops[i]) = 3
        /\ ops[i][2] = WriteOp(entitlements[i], entitlementsPlist, "")
        /\ ops[i][3] = Op("RemoveAll", tmp[i], "")
        /\ calls[i] = <<>>
        /\ ret[i] = NotReturned
        /\ DOMAIN fs = {TempDir}

====
